---- MODULE Spec2Model ----
(***************************************************************************)
(* Model of LocationHistoryConverter (src/location_history_to_kml.py):     *)
(* the record loop of convert_to_kml, the parsers and filters it calls,    *)
(* create_track_from_activity, and the KML serializer write_kml.           *)
(*                                                                         *)
(* Representation of Python values                                         *)
(*   Optional[T]      <<>> is None (or a missing key read with .get),      *)
(*                    <<v>> is the value v                                 *)
(*   dict             a record; a key is present iff it is in DOMAIN       *)
(*   float degrees    [num, den], the quotient num / den                   *)
(*   datetime         [wall, aware, off]: wall-clock seconds since         *)
(*                    2024-03-01T00:00:00, whether tzinfo is set, and the  *)
(*                    UTC offset in seconds (0 when naive)                 *)
(*   str (timestamp)  [fmt, wall, zone]: fmt "iso" or "bad" (not ISO),     *)
(*                    zone "" (none), "Z" or "+1" (a numeric offset)       *)
(*   str (geo)        [prefix, fields]: the text before the numbers and    *)
(*                    the comma-separated fields, each numeric or not      *)
(*   str (date key)   the sequence of its code points                      *)
(*   int (not a str)  [json |-> "number", val]: a JSON number found where  *)
(*                    a geo or timestamp text is expected                  *)
(*   probability,     [numeric, val]: a number or numeric text (numeric),  *)
(*   distanceMeters   or a text float() rejects                            *)
(***************************************************************************)
EXTENDS Integers, Sequences, FiniteSets, TLC

VARIABLES config, data, activities, visits, tracks,
          activities_by_day, visits_by_day, tracks_by_day,
          stats, pc, kml, input, first

vars == <<config, data, activities, visits, tracks,
          activities_by_day, visits_by_day, tracks_by_day,
          stats, pc, kml, input, first>>

---------------------------------------------------------------------------
(* Bounds of the model *)

\* records in one input list (main specification)
MaxEntries == 3
\* records in one input list (date filter specification)
MaxFilterEntries == 2
\* records in the input list of a run that is repeated (two-run specification)
MaxRerunEntries == 2
\* records in an input list with malformed fields (malformed-field specification)
MaxMalformedEntries == 2
\* records in the list of an input file (load specification)
MaxLoadEntries == 3
\* points in the varied path list of an activity (track specification)
MaxPathLen == 2
\* seconds in a model day: wall-clock times range over two days
DayLen == 2

\* 10^7, the scale of fixed-point (E7) degrees
E7Scale == 10000000

---------------------------------------------------------------------------
(* Python helpers *)

None == <<>>
Some(v) == <<v>>
Val(o) == o[1]

\* dict.get(key, default)
Get(d, key, default) == IF key \in DOMAIN d THEN d[key] ELSE default

\* float(text) of a numeric field / int / float: the quotient n / 1
Float(n) == [num |-> n, den |-> 1]

\* lat != 0 for a float
NonZero(f) == f.num # 0

\* n / 10000000.0 for an integer n of fixed-point degrees
DecodeE7(n) == [num |-> n, den |-> E7Scale]

\* code points of the characters used in date keys and identifiers
Hyphen == 45
Underscore == 95
Space == 32
Digit(n) == 48 + n
TwoDigits(n) == <<Digit(n \div 10), Digit(n % 10)>>

---------------------------------------------------------------------------
(* Parsers *)

\* a decoded JSON value is a str, and the truth value of one that is a number
IsStr(v) == "json" \notin DOMAIN v
Truthy(v) == IF IsStr(v) THEN TRUE ELSE v.val # 0

\* "not x" is false and x.startswith / x.endswith raises AttributeError: the
\* value is there, is not a str and is not falsy (both parsers start with
\* "if not x: return None" and catch ValueError only)
AttributeRaises(value) ==
  value # None /\ ~IsStr(Val(value)) /\ Truthy(Val(value))

\* float(x) raises ValueError
FloatRaises(x) == ~x.numeric

\* parse_geo_coordinate: 'geo:<lat>,<lon>' -> (lat, lon) or None
parse_geo_coordinate(geo_string) ==
  IF geo_string = None THEN None
  ELSE LET s == Val(geo_string)
       IN IF ~IsStr(s) THEN None
          ELSE IF s.prefix # "geo:" THEN None
          ELSE IF Len(s.fields) # 2 THEN None
          ELSE IF ~s.fields[1].numeric \/ ~s.fields[2].numeric THEN None
          ELSE Some(<<Float(s.fields[1].val), Float(s.fields[2].val)>>)

\* parse_timestamp: ISO text -> datetime or None
parse_timestamp(timestamp_str) ==
  IF timestamp_str = None THEN None
  ELSE LET s == Val(timestamp_str)
       IN IF ~IsStr(s) THEN None
          ELSE IF s.fmt # "iso" THEN None
          ELSE IF s.zone = "Z" THEN Some([wall |-> s.wall, aware |-> TRUE, off |-> 0])
          ELSE IF s.zone = "+1" THEN Some([wall |-> s.wall, aware |-> TRUE, off |-> 1])
          ELSE Some([wall |-> s.wall, aware |-> FALSE, off |-> 0])

\* get_date_key: strftime('%Y-%m-%d') of the wall-clock date
get_date_key(dt) ==
  <<Digit(2), Digit(0), Digit(2), Digit(4), Hyphen, Digit(0), Digit(3), Hyphen>>
    \o TwoDigits((dt.wall \div DayLen) + 1)

\* format_timestamp_for_kml: strftime('%Y-%m-%d %H:%M:%S'); the time of day
\* is rendered as the two-digit second of the model day
format_timestamp_for_kml(dt) ==
  get_date_key(dt) \o <<Space>> \o TwoDigits(dt.wall % DayLen)

---------------------------------------------------------------------------
(* Track derivation *)

\* the test "lat != 0 and lon != 0" that keeps a decoded path point
KeepPoint(lat, lon) == NonZero(lat) /\ NonZero(lon)

\* the three loops over points / waypoints / transitStops: decode the two
\* fixed-point fields (a missing field reads as 0) and keep the point or not
RECURSIVE DecodePoints(_, _, _)
DecodePoints(points, latKey, lngKey) ==
  IF points = <<>> THEN <<>>
  ELSE LET point == Head(points)
           lat == DecodeE7(Get(point, latKey, 0))
           lon == DecodeE7(Get(point, lngKey, 0))
           rest == DecodePoints(Tail(points), latKey, lngKey)
       IN IF KeepPoint(lat, lon) THEN <<<<lat, lon>>>> \o rest ELSE rest

\* activity.get(path) and activity[path].get(listKey): the path object is
\* there and its point list is non-empty
HasPoints(path, listKey) ==
  path # None /\ Get(Val(path), listKey, <<>>) # <<>>

\* get_track_type: labels by which path objects are present
get_track_type(activity) ==
  IF activity.simplified_raw_path # None THEN "gps_track"
  ELSE IF activity.waypoint_path # None THEN "waypoint_track"
  ELSE IF activity.transit_path # None THEN "transit_track"
  ELSE "simple_track"

\* the chain with the waypoint branch before the raw path branch
TrackCoordinates_waypoints_first(activity) ==
  IF HasPoints(activity.waypoint_path, "waypoints")
    THEN DecodePoints(Val(activity.waypoint_path).waypoints, "latE7", "lngE7")
  ELSE IF HasPoints(activity.simplified_raw_path, "points")
    THEN DecodePoints(Val(activity.simplified_raw_path).points, "latE7", "lngE7")
  ELSE IF HasPoints(activity.transit_path, "transitStops")
    THEN DecodePoints(Val(activity.transit_path).transitStops,
                      "latitudeE7", "longitudeE7")
  ELSE IF activity.start_coords # None /\ activity.end_coords # None
    THEN <<Val(activity.start_coords), Val(activity.end_coords)>>
  ELSE <<>>

\* the if / elif chain of create_track_from_activity that fills coordinates
TrackCoordinates(activity) ==
  IF HasPoints(activity.simplified_raw_path, "points")
    THEN DecodePoints(Val(activity.simplified_raw_path).points, "latE7", "lngE7")
  ELSE IF HasPoints(activity.waypoint_path, "waypoints")
    THEN DecodePoints(Val(activity.waypoint_path).waypoints, "latE7", "lngE7")
  ELSE IF HasPoints(activity.transit_path, "transitStops")
    THEN DecodePoints(Val(activity.transit_path).transitStops,
                      "latitudeE7", "longitudeE7")
  ELSE IF activity.start_coords # None /\ activity.end_coords # None
    THEN <<Val(activity.start_coords), Val(activity.end_coords)>>
  ELSE <<>>

\* a single point is enough
create_track_from_activity_one(activity) ==
  LET coordinates == TrackCoordinates(activity)
  IN IF Len(coordinates) < 1 THEN None
     ELSE Some([coordinates |-> coordinates,
                start_time |-> activity.start_time,
                end_time |-> activity.end_time,
                activity_type |-> activity.activity_type,
                distance |-> activity.distance,
                track_type |-> get_track_type(activity)])

\* create_track_from_activity: the track dict, or None with fewer than 2 points
create_track_from_activity(activity) ==
  LET coordinates == TrackCoordinates(activity)
  IN IF Len(coordinates) < 2 THEN None
     ELSE Some([coordinates |-> coordinates,
                start_time |-> activity.start_time,
                end_time |-> activity.end_time,
                activity_type |-> activity.activity_type,
                distance |-> activity.distance,
                track_type |-> get_track_type(activity)])

---------------------------------------------------------------------------
(* Filters *)

\* datetime.replace(tzinfo=timezone.utc) and datetime.replace(tzinfo=None)
ReplaceTzUtc(dt) == [dt EXCEPT !.aware = TRUE, !.off = 0]
ReplaceTzNone(dt) == [dt EXCEPT !.aware = FALSE, !.off = 0]

\* the instant two datetimes of the same awareness are ordered by
Instant(dt) == dt.wall - dt.off

\* a < b or a > b between a naive and an aware datetime raises TypeError
CompareRaises(a, b) == a.aware # b.aware

\* an exclusive start bound
BelowStart_exclusive(entry_time, start_date) ==
  Instant(entry_time) <= Instant(start_date)

\* the entry is before the start bound
BelowStart(entry_time, start_date) == Instant(entry_time) < Instant(start_date)

\* the entry is after the end bound
AboveEnd(entry_time, end_date) == Instant(entry_time) > Instant(end_date)

\* lines 165-169: the time the date filter looks at
FilterEntryTime(entry) ==
  IF "startTime" \in DOMAIN entry THEN parse_timestamp(Some(entry.startTime))
  ELSE IF "endTime" \in DOMAIN entry THEN parse_timestamp(Some(entry.endTime))
  ELSE None

\* lines 165-169: the value parse_timestamp is called on
FilterTimeValue(entry) ==
  IF "startTime" \in DOMAIN entry THEN Some(entry.startTime)
  ELSE IF "endTime" \in DOMAIN entry THEN Some(entry.endTime)
  ELSE None

\* filter_by_date_range: "True", "False", "AttributeError" when parse_timestamp
\* raises, or "TypeError" when a comparison raises
filter_by_date_range(entry, start_date, end_date) ==
  IF start_date = None /\ end_date = None THEN "True"
  ELSE IF AttributeRaises(FilterTimeValue(entry)) THEN "AttributeError"
  ELSE LET entry_time == FilterEntryTime(entry)
       IN IF entry_time = None THEN "True"
          ELSE
            LET et0 == Val(entry_time)
                sd == IF start_date # None /\ ~Val(start_date).aware /\ et0.aware
                        THEN Some(ReplaceTzUtc(Val(start_date))) ELSE start_date
                ed == IF end_date # None /\ ~Val(end_date).aware /\ et0.aware
                        THEN Some(ReplaceTzUtc(Val(end_date))) ELSE end_date
                et1 == IF sd # None /\ ~Val(sd).aware /\ et0.aware
                         THEN ReplaceTzNone(et0) ELSE et0
                et2 == IF ed # None /\ ~Val(ed).aware /\ et1.aware
                         THEN ReplaceTzNone(et1) ELSE et1
            IN IF sd # None /\ CompareRaises(et2, Val(sd)) THEN "TypeError"
               ELSE IF sd # None /\ BelowStart(et2, Val(sd)) THEN "False"
               ELSE IF ed # None /\ CompareRaises(et2, Val(ed)) THEN "TypeError"
               ELSE IF ed # None /\ AboveEnd(et2, Val(ed)) THEN "False"
               ELSE "True"

\* filter_by_accuracy: a pass-through
filter_by_accuracy(entry, min_accuracy) == TRUE

---------------------------------------------------------------------------
(* Record extraction *)

\* d.get(key) with no default
GetOpt(d, key) == IF key \in DOMAIN d THEN Some(d[key]) ELSE None

\* process_activity raises before it returns: a timestamp or a geo value
\* that is not a str (AttributeError), or a probability float() rejects
process_activity_raises(entry) ==
  \/ AttributeRaises(GetOpt(entry, "startTime"))
  \/ AttributeRaises(GetOpt(entry, "endTime"))
  \/ AttributeRaises(GetOpt(entry.activity, "start"))
  \/ AttributeRaises(GetOpt(entry.activity, "end"))
  \/ FloatRaises(Get(entry.activity, "probability", [numeric |-> TRUE, val |-> 0]))

\* process_activity: the activity dict, or None when it has no coordinate.
\* The probability value is left out of the model.
process_activity(entry) ==
  LET activity == entry.activity
      start_coords == parse_geo_coordinate(GetOpt(activity, "start"))
      end_coords == parse_geo_coordinate(GetOpt(activity, "end"))
  IN IF start_coords = None /\ end_coords = None THEN None
     ELSE Some([type |-> "activity",
                activity_type |->
                  IF "topCandidate" \in DOMAIN activity
                    THEN Get(activity.topCandidate, "type", "Unknown")
                    ELSE "Unknown",
                start_time |-> parse_timestamp(GetOpt(entry, "startTime")),
                end_time |-> parse_timestamp(GetOpt(entry, "endTime")),
                start_coords |-> start_coords,
                end_coords |-> end_coords,
                distance |-> GetOpt(activity, "distanceMeters"),
                simplified_raw_path |-> GetOpt(activity, "simplifiedRawPath"),
                waypoint_path |-> GetOpt(activity, "waypointPath"),
                transit_path |-> GetOpt(activity, "transitPath")])

\* process_visit raises before it returns; float(probability) comes after
\* the return of None for a visit without place location
process_visit_raises(entry) ==
  \/ AttributeRaises(GetOpt(entry, "startTime"))
  \/ AttributeRaises(GetOpt(entry, "endTime"))
  \/ /\ "topCandidate" \in DOMAIN entry.visit
     /\ AttributeRaises(GetOpt(entry.visit.topCandidate, "placeLocation"))
  \/ /\ "topCandidate" \in DOMAIN entry.visit
     /\ parse_geo_coordinate(GetOpt(entry.visit.topCandidate, "placeLocation")) # None
     /\ FloatRaises(Get(entry.visit, "probability", [numeric |-> TRUE, val |-> 0]))

\* process_visit: the visit dict, or None when it has no place location.
\* The probability value and place_id are left out of the model.
process_visit(entry) ==
  LET visit == entry.visit
      location_coords ==
        IF "topCandidate" \in DOMAIN visit
          THEN parse_geo_coordinate(GetOpt(visit.topCandidate, "placeLocation"))
          ELSE None
  IN IF location_coords = None THEN None
     ELSE Some([type |-> "visit",
                start_time |-> parse_timestamp(GetOpt(entry, "startTime")),
                end_time |-> parse_timestamp(GetOpt(entry, "endTime")),
                coords |-> Val(location_coords),
                semantic_type |->
                  Get(visit.topCandidate, "semanticType", "Unknown"),
                hierarchy_level |-> Get(visit, "hierarchyLevel", "0")])

---------------------------------------------------------------------------
(* The record loop of convert_to_kml *)

\* d[key].insert(0, v)
AppendDay_front(d, key, v) ==
  IF key \in DOMAIN d THEN [d EXCEPT ![key] = <<v>> \o @]
  ELSE [k \in DOMAIN d \cup {key} |-> IF k = key THEN <<v>> ELSE d[k]]

\* defaultdict(list): d[key].append(v)
AppendDay(d, key, v) ==
  IF key \in DOMAIN d THEN [d EXCEPT ![key] = Append(@, v)]
  ELSE [k \in DOMAIN d \cup {key} |-> IF k = key THEN <<v>> ELSE d[k]]

\* "group_by_day and processed['start_time']": index the item under its day
IndexByDay(d, item) ==
  IF config.group_by_day /\ item.start_time # None
    THEN AppendDay(d, get_date_key(Val(item.start_time)), item)
    ELSE d

Bump(counter) == [stats EXCEPT ![counter] = @ + 1]

\* the track toggle forgotten
TrackSegment_ungated(act) == create_track_from_activity(act)

\* lines 314-316: the track segment of a stored activity, if tracks are
\* included and it has one
TrackSegment(act) ==
  IF config.include_tracks THEN create_track_from_activity(act) ELSE None

\* lines 307-327: an entry with an 'activity' key, activities included
StoreActivity(entry, counted) ==
  LET processed == process_activity(entry)
  IN IF processed = None
       THEN /\ stats' = counted
            /\ UNCHANGED <<activities, tracks, activities_by_day, tracks_by_day>>
       ELSE
         LET act == Val(processed)
             track_segment == TrackSegment(act)
         IN /\ activities' = Append(activities, act)
            /\ activities_by_day' = IndexByDay(activities_by_day, act)
            /\ IF track_segment # None
                 THEN /\ tracks' = Append(tracks, Val(track_segment))
                      /\ tracks_by_day' = IndexByDay(tracks_by_day, Val(track_segment))
                      /\ stats' = [counted EXCEPT !.activities = @ + 1, !.tracks = @ + 1]
                 ELSE /\ UNCHANGED <<tracks, tracks_by_day>>
                      /\ stats' = [counted EXCEPT !.activities = @ + 1]

\* lines 329-338: an entry with a 'visit' key, visits included
StoreVisit(entry, counted) ==
  LET processed == process_visit(entry)
  IN IF processed = None
       THEN /\ stats' = counted
            /\ UNCHANGED <<visits, visits_by_day>>
       ELSE /\ visits' = Append(visits, Val(processed))
            /\ visits_by_day' = IndexByDay(visits_by_day, Val(processed))
            /\ stats' = [counted EXCEPT !.visits = @ + 1]

\* the branch of the record calls process_activity or process_visit, which raises
StoreRaises(entry, verdict) ==
  /\ verdict = "True"
  /\ IF "activity" \in DOMAIN entry /\ config.include_activities
       THEN process_activity_raises(entry)
     ELSE IF "visit" \in DOMAIN entry /\ config.include_visits
       THEN process_visit_raises(entry)
     ELSE FALSE

\* one iteration of "for entry in data" (lines 294-338); data holds the
\* records iterated so far
ProcessEntry(entry) ==
  /\ pc = "processing"
  /\ data' = Append(data, entry)
  /\ LET counted == Bump("total_entries")
         verdict == filter_by_date_range(entry, config.start_date, config.end_date)
     IN IF verdict \in {"TypeError", "AttributeError"} \/ StoreRaises(entry, verdict)
          THEN /\ pc' = "aborted"
               /\ stats' = counted
               /\ UNCHANGED <<activities, visits, tracks, activities_by_day,
                              visits_by_day, tracks_by_day>>
        ELSE IF verdict = "False" \/ ~filter_by_accuracy(entry, config.min_accuracy)
          THEN /\ stats' = [counted EXCEPT !.filtered_out = @ + 1]
               /\ UNCHANGED <<pc, activities, visits, tracks, activities_by_day,
                              visits_by_day, tracks_by_day>>
        ELSE IF "activity" \in DOMAIN entry /\ config.include_activities
          THEN /\ StoreActivity(entry, counted)
               /\ UNCHANGED <<pc, visits, visits_by_day>>
        ELSE IF "visit" \in DOMAIN entry /\ config.include_visits
          THEN /\ StoreVisit(entry, counted)
               /\ UNCHANGED <<pc, activities, tracks, activities_by_day, tracks_by_day>>
        ELSE /\ stats' = counted
             /\ UNCHANGED <<pc, activities, visits, tracks, activities_by_day,
                            visits_by_day, tracks_by_day>>
  /\ UNCHANGED <<config, kml, input, first>>

---------------------------------------------------------------------------
(* The KML serializer.  The document is the sequence of the folders written *)
(* into <Document>; a folder is [tag, id, children], its id the literal     *)
(* prefix and the text formatted after it; a placemark is a record of the   *)
(* values written into it.  The header and the styles are fixed text and    *)
(* are left out, as is a duration that can be computed.                     *)

\* f'{lon},{lat}'
KmlCoordinate(coords) == <<coords[2], coords[1]>>

\* str.replace(old, new) on one-character strings
Replace(text, old, new) ==
  [i \in DOMAIN text |-> IF text[i] = old THEN new ELSE text[i]]

\* track_type.replace('_', ' ').title()
TrackTypeLabel(track_type) ==
  CASE track_type = "gps_track" -> "Gps Track"
    [] track_type = "waypoint_track" -> "Waypoint Track"
    [] track_type = "transit_track" -> "Transit Track"
    [] track_type = "simple_track" -> "Simple Track"
    [] OTHER -> "Unknown"

\* end_time - start_time raises TypeError between a naive and an aware datetime
DurationRaises(item) ==
  /\ item.start_time # None
  /\ item.end_time # None
  /\ Val(item.start_time).aware # Val(item.end_time).aware

\* float(item['distance']) raises ValueError in "if item['distance']:"
DistanceRaises(item) ==
  /\ item.distance # None
  /\ Val(item.distance).numeric => Val(item.distance).val # 0
  /\ FloatRaises(Val(item.distance))

\* write_activity_placemark: the placemarks it writes (none or one)
write_activity_placemark(activity, point_type) ==
  LET coords == IF point_type = "start" THEN activity.start_coords
                                         ELSE activity.end_coords
      time == IF point_type = "start" THEN activity.start_time
                                       ELSE activity.end_time
  IN IF coords = None \/ time = None THEN <<>>
     ELSE <<[tag |-> "Placemark",
             name |-> format_timestamp_for_kml(Val(time)),
             activity_type |-> activity.activity_type,
             point_type |-> point_type,
             styleUrl |-> IF point_type = "start" THEN "activity_start"
                                                  ELSE "activity_end",
             coordinates |-> <<KmlCoordinate(Val(coords))>>]>>

\* the end point written only when there is no start point
ActivityPoints_elif(activity) ==
  IF activity.start_coords # None THEN write_activity_placemark(activity, "start")
  ELSE IF activity.end_coords # None THEN write_activity_placemark(activity, "end")
  ELSE <<>>

\* the loop body shared by write_activities_folder and
\* write_daily_activities_folder
ActivityPoints(activity) ==
  (IF activity.start_coords # None
     THEN write_activity_placemark(activity, "start") ELSE <<>>)
  \o (IF activity.end_coords # None
        THEN write_activity_placemark(activity, "end") ELSE <<>>)

RECURSIVE ActivitiesPlacemarks(_)
ActivitiesPlacemarks(list) ==
  IF list = <<>> THEN <<>>
  ELSE ActivityPoints(Head(list)) \o ActivitiesPlacemarks(Tail(list))

\* write_visit_placemark
write_visit_placemark(visit) ==
  LET time == IF visit.start_time # None THEN visit.start_time ELSE visit.end_time
  IN [tag |-> "Placemark",
      name |-> IF time = None THEN None
               ELSE Some(format_timestamp_for_kml(Val(time))),
      semantic_type |-> visit.semantic_type,
      styleUrl |-> IF visit.hierarchy_level = "0" THEN "visit"
                                                  ELSE "visit_hierarchy_1",
      coordinates |-> <<KmlCoordinate(visit.coords)>>]

RECURSIVE VisitsPlacemarks(_)
VisitsPlacemarks(list) ==
  IF list = <<>> THEN <<>>
  ELSE <<write_visit_placemark(Head(list))>> \o VisitsPlacemarks(Tail(list))

RECURSIVE KmlCoordinates(_)
KmlCoordinates(coordinates) ==
  IF coordinates = <<>> THEN <<>>
  ELSE <<KmlCoordinate(Head(coordinates))>> \o KmlCoordinates(Tail(coordinates))

\* write_track_placemark: the placemarks it writes (none or one)
write_track_placemark(track) ==
  IF Len(track.coordinates) < 2 THEN <<>>
  ELSE <<[tag |-> "Placemark",
          name |-> IF track.start_time = None THEN None
                   ELSE Some(format_timestamp_for_kml(Val(track.start_time))),
          activity_type |-> track.activity_type,
          track_type |-> TrackTypeLabel(track.track_type),
          points |-> Len(track.coordinates),
          styleUrl |-> "track_line",
          coordinates |-> KmlCoordinates(track.coordinates)]>>

RECURSIVE TracksPlacemarks(_)
TracksPlacemarks(list) ==
  IF list = <<>> THEN <<>>
  ELSE write_track_placemark(Head(list)) \o TracksPlacemarks(Tail(list))

Folder(prefix, text, children) ==
  [tag |-> "Folder", id |-> [prefix |-> prefix, text |-> text],
   children |-> children]

\* write_activities_folder, write_visits_folder, write_tracks_folder
write_activities_folder == <<Folder("activities", <<>>, ActivitiesPlacemarks(activities))>>
write_visits_folder == <<Folder("visits", <<>>, VisitsPlacemarks(visits))>>
write_tracks_folder ==
  IF tracks = <<>> THEN <<>>
  ELSE <<Folder("tracks", <<>>, TracksPlacemarks(tracks))>>

\* write_daily_activities_folder, write_daily_visits_folder,
\* write_daily_tracks_folder
write_daily_activities_folder(date_key, list) ==
  Folder("activities_", Replace(date_key, Hyphen, Underscore), ActivitiesPlacemarks(list))
write_daily_visits_folder(date_key, list) ==
  Folder("visits_", Replace(date_key, Hyphen, Underscore), VisitsPlacemarks(list))
write_daily_tracks_folder(date_key, list) ==
  Folder("tracks_", Replace(date_key, Hyphen, Underscore), TracksPlacemarks(list))

\* a < b for two strings: by code point, a proper prefix first
RECURSIVE StrLess(_, _)
StrLess(a, b) ==
  IF b = <<>> THEN FALSE
  ELSE IF a = <<>> THEN TRUE
  ELSE IF Head(a) # Head(b) THEN Head(a) < Head(b)
  ELSE StrLess(Tail(a), Tail(b))

\* sorted(set_of_strings)
RECURSIVE Sorted(_)
Sorted(S) ==
  IF S = {} THEN <<>>
  ELSE LET least == CHOOSE x \in S : \A y \in S \ {x} : StrLess(x, y)
       IN <<least>> \o Sorted(S \ {least})

\* a loop over the activity index alone
AllDates_activities_only == DOMAIN activities_by_day

\* lines 431-433: the dates whose folders are written
AllDates == DOMAIN activities_by_day \cup DOMAIN visits_by_day

\* lines 438-456: the folder of one day
DayFolder(date_key) ==
  Folder("day_", date_key,
    (IF date_key \in DOMAIN activities_by_day /\ activities_by_day[date_key] # <<>>
       THEN <<write_daily_activities_folder(date_key, activities_by_day[date_key])>>
       ELSE <<>>)
    \o (IF date_key \in DOMAIN visits_by_day /\ visits_by_day[date_key] # <<>>
          THEN <<write_daily_visits_folder(date_key, visits_by_day[date_key])>>
          ELSE <<>>)
    \o (IF date_key \in DOMAIN tracks_by_day /\ tracks_by_day[date_key] # <<>>
          THEN <<write_daily_tracks_folder(date_key, tracks_by_day[date_key])>>
          ELSE <<>>))

\* write_daily_folders
write_daily_folders ==
  LET sorted_dates == Sorted(AllDates)
  IN [i \in 1..Len(sorted_dates) |-> DayFolder(sorted_dates[i])]

\* the folders write_kml writes between the styles and </Document>
KmlFolders ==
  IF config.group_by_day THEN write_daily_folders
  ELSE (IF activities # <<>> THEN write_activities_folder ELSE <<>>)
       \o (IF visits # <<>> THEN write_visits_folder ELSE <<>>)
       \o (IF config.include_tracks THEN write_tracks_folder ELSE <<>>)

\* the tracks and visits write_kml reaches, each of which computes a duration
RECURSIVE Flatten(_, _)
Flatten(d, keys) ==
  IF keys = <<>> THEN <<>> ELSE d[Head(keys)] \o Flatten(d, Tail(keys))

Serialized(flat, by_day) ==
  IF config.group_by_day
    THEN Flatten(by_day, Sorted(AllDates \cap DOMAIN by_day))
    ELSE flat

WriteRaises ==
  \/ \E i \in DOMAIN Serialized(visits, visits_by_day) :
        DurationRaises(Serialized(visits, visits_by_day)[i])
  \/ /\ config.group_by_day \/ config.include_tracks
     /\ \E i \in DOMAIN Serialized(tracks, tracks_by_day) :
          \/ DurationRaises(Serialized(tracks, tracks_by_day)[i])
          \/ DistanceRaises(Serialized(tracks, tracks_by_day)[i])
  \/ \E i \in DOMAIN Serialized(activities, activities_by_day) :
        /\ DistanceRaises(Serialized(activities, activities_by_day)[i])
        /\ ActivityPoints(Serialized(activities, activities_by_day)[i]) # <<>>

\* the write starts before the loop is over
LoopDone_early == TRUE

\* "for entry in data" is over: every record of the loaded list has been
\* iterated (a run that is fed record by record ends where the write starts)
LoopDone == IF input = None THEN TRUE ELSE Len(data) = Len(Val(input).records)

\* write_kml, called when the loop is over (lines 343-345): the document is
\* complete, or a TypeError leaves the opened file incomplete (the text
\* written up to there is not modelled)
WriteKml ==
  /\ pc = "processing"
  /\ LoopDone
  /\ IF WriteRaises
       THEN /\ pc' = "aborted"
            /\ kml' = [opened |-> TRUE, complete |-> FALSE, folders |-> <<>>]
       ELSE /\ pc' = "written"
            /\ kml' = [opened |-> TRUE, complete |-> TRUE, folders |-> KmlFolders]
  /\ UNCHANGED <<config, data, activities, visits, tracks, activities_by_day,
                 visits_by_day, tracks_by_day, stats, input, first>>

---------------------------------------------------------------------------
(* Inputs: the decoded JSON records and the configurations *)

Ts(wall, zone) == [fmt |-> "iso", wall |-> wall, zone |-> zone]
BadTs == [fmt |-> "bad", wall |-> 0, zone |-> ""]

Geo(lat, lon) ==
  [prefix |-> "geo:",
   fields |-> <<[numeric |-> TRUE, val |-> lat], [numeric |-> TRUE, val |-> lon]>>]
\* 'loc:1,2', 'geo:1,2,3' and 'geo:1,x'
BadGeos ==
  {[prefix |-> "loc:", fields |-> Geo(1, 2).fields],
   [prefix |-> "geo:", fields |-> Geo(1, 2).fields \o <<[numeric |-> TRUE, val |-> 3]>>],
   [prefix |-> "geo:",
    fields |-> <<[numeric |-> TRUE, val |-> 1], [numeric |-> FALSE, val |-> 0]>>]}

\* a dict from optional parts: base plus key -> Val(opt) when opt is there
With(base, key, opt) == IF opt = None THEN base ELSE (key :> Val(opt)) @@ base

\* a record carrying the times st and et (None: the key is missing)
Timed(body, st, et) == With(With(body, "endTime", et), "startTime", st)

\* the first second of the first and of the second model day
Day0 == 0 * DayLen
Day1 == DayLen

Walking == [type |-> "walking"]

\* an 'activity' object from optional geo strings and optional path objects
ActivityObj(start, end, raw, way, transit) ==
  With(With(With(With(With([topCandidate |-> Walking],
    "transitPath", transit), "waypointPath", way), "simplifiedRawPath", raw),
    "end", end), "start", start)

\* a 'visit' object with or without a place location
VisitObj(location) ==
  [hierarchyLevel |-> "0",
   topCandidate |-> With([semanticType |-> "Home"], "placeLocation", location)]

E7Point(lat, lon) == [latE7 |-> lat * E7Scale, lngE7 |-> lon * E7Scale]
E7Stop(lat, lon) == [latitudeE7 |-> lat * E7Scale, longitudeE7 |-> lon * E7Scale]

StartGeo == Some(Geo(1, 2))
EndGeo == Some(Geo(3, 4))

\* raw paths with one and with two points that have no zero component
RawOne == Some([points |-> <<E7Point(0, 0), E7Point(5, 6)>>])
RawTwo == Some([points |-> <<E7Point(5, 6), E7Point(0, 0), E7Point(7, 8)>>])

\* the records of the main specification
Known0 == Some(Ts(Day0, "Z"))
Known1 == Some(Ts(Day1, "Z"))
After(st) == Some(Ts(Val(st).wall + 1, "Z"))

ActivityEntries ==
  {\* both ends, only a start, an unknown start time, an unknown end time
   Timed([activity |-> ActivityObj(StartGeo, EndGeo, None, None, None)],
         Known0, After(Known0)),
   Timed([activity |-> ActivityObj(StartGeo, None, None, None, None)],
         Known0, After(Known0)),
   Timed([activity |-> ActivityObj(StartGeo, None, None, None, None)],
         None, After(Known0)),
   Timed([activity |-> ActivityObj(StartGeo, EndGeo, None, None, None)],
         None, After(Known0)),
   Timed([activity |-> ActivityObj(StartGeo, EndGeo, None, None, None)],
         Known0, None),
   \* no coordinate: the end is not a geo string
   Timed([activity |-> ActivityObj(None, Some(CHOOSE g \in BadGeos : TRUE),
                                   None, None, None)],
         Known0, After(Known0)),
   \* raw paths with one and with two usable points, on the second day
   Timed([activity |-> ActivityObj(StartGeo, EndGeo, RawOne, None, None)],
         Known1, After(Known1)),
   Timed([activity |-> ActivityObj(StartGeo, EndGeo, RawTwo, None, None)],
         Known1, After(Known1))}

VisitEntries ==
  {Timed([visit |-> VisitObj(StartGeo)], st, After(Known1)) :
     st \in {None, Known0, Known1}}
  \cup
  {\* no place location
   Timed([visit |-> VisitObj(None)], Known0, None),
   \* an aware start time and a naive end time
   Timed([visit |-> VisitObj(EndGeo)], Known0, Some(Ts(Day0 + 1, "")))}

OtherEntries ==
  {\* neither key
   Timed([rawSignal |-> "wifi"], Known0, None),
   \* both keys
   Timed([activity |-> ActivityObj(StartGeo, EndGeo, None, None, None),
          visit |-> VisitObj(EndGeo)],
         Known1, After(Known1))}

Entries == ActivityEntries \cup VisitEntries \cup OtherEntries

Config(sd, ed, ia, iv, it, gd) ==
  [start_date |-> sd, end_date |-> ed, min_accuracy |-> None,
   include_activities |-> ia, include_visits |-> iv,
   include_tracks |-> it, group_by_day |-> gd]

\* every setting of the four toggles, no date bound
Configs ==
  {Config(None, None, ia, iv, it, gd) :
     ia \in BOOLEAN, iv \in BOOLEAN, it \in BOOLEAN, gd \in BOOLEAN}

---------------------------------------------------------------------------
(* The conversion run: __init__, then the loop, then write_kml *)

\* a converter as __init__ leaves it, given one configuration
Fresh ==
  /\ data = <<>>
  /\ activities = <<>>
  /\ visits = <<>>
  /\ tracks = <<>>
  /\ activities_by_day = <<>>
  /\ visits_by_day = <<>>
  /\ tracks_by_day = <<>>
  /\ stats = [total_entries |-> 0, activities |-> 0, visits |-> 0,
              tracks |-> 0, filtered_out |-> 0]
  /\ pc = "processing"
  /\ kml = [opened |-> FALSE, complete |-> FALSE, folders |-> <<>>]
  /\ input = None
  /\ first = None

Init == config \in Configs /\ Fresh

Process == \E entry \in Entries : Len(data) < MaxEntries /\ ProcessEntry(entry)

Next == Process \/ WriteKml

Spec == Init /\ [][Next]_vars

---------------------------------------------------------------------------
(* Track derivation: runs over one activity with varied path objects *)

\* the whole degrees a varied path point is made of
Degrees == {0, 1, 2}

\* every list of at most MaxPathLen points
PointLists(pointSet) == UNION {[1..n -> pointSet] : n \in 0..MaxPathLen}

RichRaw == {Some([points |-> l]) :
              l \in PointLists({E7Point(la, lo) : la \in Degrees, lo \in Degrees})}
RichWay == {Some([waypoints |-> l]) :
              l \in PointLists({E7Point(la, lo) : la \in Degrees, lo \in Degrees})}
RichTransit == {Some([transitStops |-> l]) :
                  l \in PointLists({E7Stop(la, lo) : la \in Degrees, lo \in Degrees})}

\* path objects that are missing, hold an empty list, or hold two points
PlainRaw == {None, Some([points |-> <<>>])}
PlainWay == {None, Some([waypoints |-> <<>>]),
             Some([waypoints |-> <<E7Point(5, 6), E7Point(7, 8)>>])}
PlainTransit == {None, Some([transitStops |-> <<>>]),
                 Some([transitStops |-> <<E7Stop(9, 10), E7Stop(11, 12)>>])}

\* the path objects of one activity: one of the three is varied
PathTriples ==
  (RichRaw \X PlainWay \X PlainTransit)
  \cup (PlainRaw \X RichWay \X PlainTransit)
  \cup (PlainRaw \X PlainWay \X RichTransit)

TrackEntries ==
  {Timed([activity |-> ActivityObj(StartGeo, end, p[1], p[2], p[3])],
         Known0, After(Known0)) :
     end \in {None, EndGeo}, p \in PathTriples}

InitTrack == config = Config(None, None, TRUE, TRUE, TRUE, FALSE) /\ Fresh

ProcessTrack == \E entry \in TrackEntries : data = <<>> /\ ProcessEntry(entry)

NextTrack == ProcessTrack \/ WriteKml

SpecTrack == InitTrack /\ [][NextTrack]_vars

---------------------------------------------------------------------------
(* The date filter: runs with date bounds over records of varied times *)

\* the wall-clock seconds of the two model days
Seconds == 0..(2 * DayLen - 1)

\* --start-date and --end-date: a second of the first day and the next
\* second, naive (as '%Y-%m-%d %H:%M:%S' parses) or aware (as '...%z' parses)
LoBound == DayLen - 1
HiBound == DayLen
Naive(wall) == [wall |-> wall, aware |-> FALSE, off |-> 0]
AwareUtc(wall) == [wall |-> wall, aware |-> TRUE, off |-> 0]

FilterConfigs ==
  {Config(sd, ed, TRUE, TRUE, TRUE, FALSE) :
     sd \in {None, Some(Naive(LoBound)), Some(AwareUtc(LoBound))},
     ed \in {None, Some(Naive(HiBound)), Some(AwareUtc(HiBound))}}

FilterEntries ==
  {\* a start time of every second and zone
   Timed([visit |-> VisitObj(StartGeo)], Some(Ts(t, z)), None) :
     t \in Seconds, z \in {"", "Z", "+1"}}
  \cup
  {\* no start time, or one that does not parse, and an end time or none
   Timed([visit |-> VisitObj(StartGeo)], st, et) :
     st \in {None, Some(BadTs)},
     et \in {None} \cup {Some(Ts(t, z)) : t \in {0, HiBound + 1}, z \in {"", "Z"}}}
  \cup
  {\* records that are not stored: no place location, no coordinate, no key
   Timed([visit |-> VisitObj(None)], Some(Ts(LoBound, "Z")), None),
   Timed([activity |-> ActivityObj(None, None, None, None, None)],
         Some(Ts(LoBound, "Z")), None),
   Timed([rawSignal |-> "wifi"], Some(Ts(LoBound, "Z")), None)}

InitFilter == config \in FilterConfigs /\ Fresh

ProcessFilter ==
  \E entry \in FilterEntries : Len(data) < MaxFilterEntries /\ ProcessEntry(entry)

NextFilter == ProcessFilter \/ WriteKml

SpecFilter == InitFilter /\ [][NextFilter]_vars

---------------------------------------------------------------------------
(* Malformed fields: runs over records with one field that is not as expected *)

\* the JSON numbers 5 and 0 where a text is expected
NotStr == [json |-> "number", val |-> 5]
NotStrZero == [json |-> "number", val |-> 0]

GeoValues == {Geo(1, 2), CHOOSE g \in BadGeos : TRUE, NotStr, NotStrZero}
TimeValues == {Ts(Day0, "Z"), BadTs, NotStr, NotStrZero}
\* a missing number, the number 1, and a text that is no number
NumValues == {None, Some([numeric |-> TRUE, val |-> 1]),
              Some([numeric |-> FALSE, val |-> 0])}

MalformedEntries ==
  {Timed([activity |-> ActivityObj(Some(g), EndGeo, None, None, None)],
         Known0, After(Known0)) : g \in GeoValues}
  \cup
  {Timed([activity |-> ActivityObj(StartGeo, EndGeo, None, None, None)],
         Some(t), After(Known0)) : t \in TimeValues}
  \cup
  {Timed([activity |-> ActivityObj(StartGeo, EndGeo, None, None, None)],
         Known0, Some(t)) : t \in TimeValues}
  \cup
  {Timed([activity |-> With(With(ActivityObj(StartGeo, EndGeo, None, None, None),
                                 "probability", p), "distanceMeters", d)],
         Known0, After(Known0)) : p \in NumValues, d \in NumValues}
  \cup
  {Timed([visit |-> VisitObj(Some(g))], Known0, After(Known0)) : g \in GeoValues}
  \cup
  {Timed([visit |-> VisitObj(StartGeo)], Some(t), After(Known0)) : t \in TimeValues}
  \cup
  {Timed([visit |-> With(VisitObj(l), "probability", p)], Known0, After(Known0)) :
     l \in {None, StartGeo}, p \in NumValues}
  \cup
  {Timed([rawSignal |-> "wifi"], Some(t), None) : t \in TimeValues}

MalformedConfigs ==
  {Config(sd, None, TRUE, TRUE, TRUE, gd) :
     sd \in {None, Some(AwareUtc(Day0))}, gd \in BOOLEAN}

InitMalformed == config \in MalformedConfigs /\ Fresh

ProcessMalformed ==
  \E entry \in MalformedEntries :
    Len(data) < MaxMalformedEntries /\ ProcessEntry(entry)

NextMalformed == ProcessMalformed \/ WriteKml

SpecMalformed == InitMalformed /\ [][NextMalformed]_vars

---------------------------------------------------------------------------
(* Load first: the run starts at load_json_data on an input file *)

LoadEntries ==
  {Timed([activity |-> ActivityObj(StartGeo, EndGeo, None, None, None)],
         Known0, After(Known0)),
   Timed([visit |-> VisitObj(StartGeo)], Known1, After(Known1)),
   \* an aware start time and a naive end time: the write raises
   Timed([visit |-> VisitObj(EndGeo)], Known0, Some(Ts(Day0 + 1, ""))),
   Timed([rawSignal |-> "wifi"], Known0, None)}

\* what is at the input path: nothing, text that is not JSON, a JSON object,
\* or a JSON list of records
InputFiles ==
  {[kind |-> k, records |-> <<>>] : k \in {"missing", "invalid", "object"}}
  \cup
  {[kind |-> "list", records |-> l] :
     l \in UNION {[1..n -> LoadEntries] : n \in 0..MaxLoadEntries}}

InitLoad ==
  /\ config \in {Config(None, None, TRUE, TRUE, TRUE, gd) : gd \in BOOLEAN}
  /\ input \in {Some(file) : file \in InputFiles}
  /\ pc = "loading"
  /\ data = <<>>
  /\ activities = <<>>
  /\ visits = <<>>
  /\ tracks = <<>>
  /\ activities_by_day = <<>>
  /\ visits_by_day = <<>>
  /\ tracks_by_day = <<>>
  /\ stats = [total_entries |-> 0, activities |-> 0, visits |-> 0,
              tracks |-> 0, filtered_out |-> 0]
  /\ kml = [opened |-> FALSE, complete |-> FALSE, folders |-> <<>>]
  /\ first = None

\* load_json_data: FileNotFoundError, ValueError for text that is not JSON,
\* ValueError for JSON that is not a list, or the list
Load ==
  /\ pc = "loading"
  /\ pc' = IF Val(input).kind = "list" THEN "processing" ELSE "failed"
  /\ UNCHANGED <<config, data, activities, visits, tracks, activities_by_day,
                 visits_by_day, tracks_by_day, stats, kml, input, first>>

\* the loop takes the records of the loaded list in order
ProcessLoaded ==
  /\ Len(data) < Len(Val(input).records)
  /\ ProcessEntry(Val(input).records[Len(data) + 1])

NextLoad == Load \/ ProcessLoaded \/ WriteKml

SpecLoad == InitLoad /\ [][NextLoad]_vars

---------------------------------------------------------------------------
(* One plain activity: a record with both ends, both times and no path data *)

SimpleEntries ==
  {Timed([activity |-> ActivityObj(Some(Geo(a, b)), Some(Geo(c, d)),
                                   None, None, None)],
         Some(Ts(t, z1)), Some(Ts(t + 1, z2))) :
     a \in {0, 1}, b \in {0, 1}, c \in {0, 1}, d \in {0, 1},
     t \in {Day0, Day1}, z1 \in {"", "Z"}, z2 \in {"", "Z"}}

InitSimple == config = Config(None, None, TRUE, TRUE, TRUE, FALSE) /\ Fresh

ProcessSimple == \E entry \in SimpleEntries : data = <<>> /\ ProcessEntry(entry)

NextSimple == ProcessSimple \/ WriteKml

SpecSimple == InitSimple /\ [][NextSimple]_vars

---------------------------------------------------------------------------
(* Two runs: convert_to_kml is called a second time on the same records and *)
(* configuration, on the same converter object or on a newly created one    *)

RerunEntries ==
  {Timed([activity |-> ActivityObj(StartGeo, EndGeo, None, None, None)],
         Known0, After(Known0)),
   Timed([visit |-> VisitObj(StartGeo)], Known1, After(Known1)),
   Timed([rawSignal |-> "wifi"], Known0, None)}

\* the first run is over and its records and document are noted; the
\* second call starts on the same object, whose attributes stay as they are
RunAgain ==
  /\ pc = "written"
  /\ first = None
  /\ first' = Some([data |-> data, kml |-> kml, renewed |-> FALSE])
  /\ data' = <<>>
  /\ pc' = "processing"
  /\ UNCHANGED <<config, activities, visits, tracks, activities_by_day,
                 visits_by_day, tracks_by_day, stats, kml, input>>

\* the second call starts on a new LocationHistoryConverter()
RunAnew ==
  /\ pc = "written"
  /\ first = None
  /\ first' = Some([data |-> data, kml |-> kml, renewed |-> TRUE])
  /\ data' = <<>>
  /\ pc' = "processing"
  /\ activities' = <<>>
  /\ visits' = <<>>
  /\ tracks' = <<>>
  /\ activities_by_day' = <<>>
  /\ visits_by_day' = <<>>
  /\ tracks_by_day' = <<>>
  /\ stats' = [total_entries |-> 0, activities |-> 0, visits |-> 0,
               tracks |-> 0, filtered_out |-> 0]
  /\ UNCHANGED <<config, kml, input>>

\* the second run iterates the records of the first
ProcessRerun ==
  \E entry \in RerunEntries :
    /\ Len(data) < MaxRerunEntries
    /\ first # None =>
         /\ Len(data) < Len(Val(first).data)
         /\ entry = Val(first).data[Len(data) + 1]
    /\ ProcessEntry(entry)

NextRerun == ProcessRerun \/ WriteKml \/ RunAgain \/ RunAnew

SpecRerun == Init /\ [][NextRerun]_vars

---------------------------------------------------------------------------
(* Vocabulary of the properties *)

\* the children of those folders of a sequence whose id starts with prefix
RECURSIVE ChildrenOf(_, _)
ChildrenOf(folders, prefix) ==
  IF folders = <<>> THEN <<>>
  ELSE (IF Head(folders).id.prefix = prefix THEN Head(folders).children ELSE <<>>)
       \o ChildrenOf(Tail(folders), prefix)

\* what a point placemark shows: its style and its coordinate text
Marks(children) ==
  [i \in DOMAIN children |-> <<children[i].styleUrl, children[i].coordinates>>]

\* a coordinate rendered longitude first
LonLat(c) == <<c[2], c[1]>>

Known(t) == t # None

\* the start and end marks of one activity: an endpoint is shown when its
\* coordinate is present and, if needTime, its time is known
EndpointMarks(a, needTime) ==
  (IF a.start_coords # None /\ (needTime => Known(a.start_time))
     THEN <<<<"activity_start", <<LonLat(Val(a.start_coords))>>>>>> ELSE <<>>)
  \o (IF a.end_coords # None /\ (needTime => Known(a.end_time))
        THEN <<<<"activity_end", <<LonLat(Val(a.end_coords))>>>>>> ELSE <<>>)

RECURSIVE ActivityMarks(_, _)
ActivityMarks(list, needTime) ==
  IF list = <<>> THEN <<>>
  ELSE EndpointMarks(Head(list), needTime) \o ActivityMarks(Tail(list), needTime)

\* the day of an item whose start time is known
DayOf(item) == get_date_key(Val(item.start_time))

\* the items of a flat collection that start on a day, in collection order
OfDay(flat, date_key) ==
  SelectSeq(flat, LAMBDA x : Known(x.start_time) /\ DayOf(x) = date_key)

Written == pc = "written"
Flat == ~config.group_by_day

\* the folder ids below which placemarks are written
FolderPrefixes ==
  IF Flat THEN {kml.folders[i].id.prefix : i \in DOMAIN kml.folders}
  ELSE UNION {{kml.folders[i].children[j].id.prefix :
                 j \in DOMAIN kml.folders[i].children} : i \in DOMAIN kml.folders}

\* every activity placemark of the document, in document order
RECURSIVE AllChildren(_, _)
AllChildren(dayFolders, prefix) ==
  IF dayFolders = <<>> THEN <<>>
  ELSE ChildrenOf(Head(dayFolders).children, prefix)
       \o AllChildren(Tail(dayFolders), prefix)

WrittenActivityMarks ==
  IF Flat THEN Marks(ChildrenOf(kml.folders, "activities"))
  ELSE Marks(AllChildren(kml.folders, "activities_"))

WrittenTracks ==
  IF Flat THEN ChildrenOf(kml.folders, "tracks")
  ELSE AllChildren(kml.folders, "tracks_")

WrittenVisits ==
  IF Flat THEN ChildrenOf(kml.folders, "visits")
  ELSE AllChildren(kml.folders, "visits_")

\* a is b with some elements left out
RECURSIVE IsSubseq(_, _)
IsSubseq(a, b) ==
  IF a = <<>> THEN TRUE
  ELSE IF b = <<>> THEN FALSE
  ELSE IF Head(a) = Head(b) THEN IsSubseq(Tail(a), Tail(b))
  ELSE IsSubseq(a, Tail(b))

\* the activities, visits and tracks the input records can give, in input order
InputActivities ==
  LET sel == SelectSeq(data, LAMBDA e :
               "activity" \in DOMAIN e /\ process_activity(e) # None)
  IN [i \in DOMAIN sel |-> Val(process_activity(sel[i]))]

InputVisits ==
  LET sel == SelectSeq(data, LAMBDA e :
               "visit" \in DOMAIN e /\ process_visit(e) # None)
  IN [i \in DOMAIN sel |-> Val(process_visit(sel[i]))]

ActivityTracks ==
  LET sel == SelectSeq(activities, LAMBDA a : create_track_from_activity(a) # None)
  IN [i \in DOMAIN sel |-> Val(create_track_from_activity(sel[i]))]

\* the fixed-point (latitude, longitude) pairs of the point list of a path
\* object; a missing object, list or field reads as empty or 0
ListOf(path, listKey) == IF path = None THEN <<>> ELSE Get(Val(path), listKey, <<>>)
Pairs(list, latKey, lngKey) ==
  [i \in DOMAIN list |-> <<Get(list[i], latKey, 0), Get(list[i], lngKey, 0)>>]
RawPairs(a) == Pairs(ListOf(a.simplified_raw_path, "points"), "latE7", "lngE7")
WayPairs(a) == Pairs(ListOf(a.waypoint_path, "waypoints"), "latE7", "lngE7")
StopPairs(a) ==
  Pairs(ListOf(a.transit_path, "transitStops"), "latitudeE7", "longitudeE7")

\* the winning source: the first, in the order raw path, waypoints, transit
\* stops, whose point list is not empty, else the [start, end] fallback
Winner(a) ==
  IF RawPairs(a) # <<>> THEN "raw"
  ELSE IF WayPairs(a) # <<>> THEN "waypoint"
  ELSE IF StopPairs(a) # <<>> THEN "transit"
  ELSE "fallback"

PairsOf(a, source) ==
  CASE source = "raw" -> RawPairs(a)
    [] source = "waypoint" -> WayPairs(a)
    [] source = "transit" -> StopPairs(a)
    [] OTHER -> <<>>

\* a fixed-point pair decodes to (0, 0)
BothZero(p) == p[1] = 0 /\ p[2] = 0

\* the number of usable points of the winning source: the points that do not
\* decode to (0, 0), or the two ends of the fallback when both are present
UsableCount(a) ==
  IF Winner(a) = "fallback"
    THEN (IF a.start_coords # None /\ a.end_coords # None THEN 2 ELSE 0)
    ELSE Cardinality({i \in DOMAIN PairsOf(a, Winner(a)) :
                        ~BothZero(PairsOf(a, Winner(a))[i])})

FewUsable(a) == UsableCount(a) < 2

\* the activities of the records that pass the date filter, in input order
StorableActivities ==
  LET sel == SelectSeq(data, LAMBDA e :
               /\ filter_by_date_range(e, config.start_date, config.end_date) = "True"
               /\ "activity" \in DOMAIN e
               /\ process_activity(e) # None)
  IN [i \in DOMAIN sel |-> Val(process_activity(sel[i]))]

\* the activity marks written where activity a belongs: the activities
\* folder, or in grouped mode the folder of the day a starts on
MarksWhereBelongs(a) ==
  IF Flat THEN WrittenActivityMarks
  ELSE IF ~Known(a.start_time) THEN <<>>
  ELSE LET day == SelectSeq(kml.folders, LAMBDA f : f.id.text = DayOf(a))
       IN Marks(AllChildren(day, "activities_"))

---------------------------------------------------------------------------
(* C3 *)

\* no track for an activity with fewer than 2 usable points: every stored
\* track has 2 coordinates or more and belongs to a stored activity with 2
\* usable points or more, tracks are no more than those activities, and the
\* document holds no other track; and such an activity is still stored
NoTrackButStored ==
  /\ \A j \in DOMAIN tracks :
       /\ Len(tracks[j].coordinates) >= 2
       /\ \E i \in DOMAIN activities :
            /\ ~FewUsable(activities[i])
            /\ tracks[j].start_time = activities[i].start_time
            /\ tracks[j].end_time = activities[i].end_time
  /\ Len(tracks) <= Cardinality({i \in DOMAIN activities : ~FewUsable(activities[i])})
  /\ Written =>
       /\ Len(WrittenTracks) <= Len(tracks)
       /\ \A k \in DOMAIN WrittenTracks : Len(WrittenTracks[k].coordinates) >= 2
  /\ config.include_activities => activities = StorableActivities

\* C3 as stated: an activity whose winning path source yields fewer than 2
\* usable points gets no track, is still stored, and its start and end
\* placemarks (one for each coordinate it has) are still written.
C3_Original ==
  /\ NoTrackButStored
  /\ Written =>
       \A i \in DOMAIN activities :
         FewUsable(activities[i]) =>
           IsSubseq(EndpointMarks(activities[i], FALSE),
                    MarksWhereBelongs(activities[i]))

\* C3 amended: an activity whose winning path source yields fewer than 2
\* usable points gets no track and is still stored; in a written document
\* its start and end placemarks stand, start before end, for each endpoint
\* whose coordinate is present and whose time is known (in grouped mode in
\* the folder of the day it starts on, so only if its start time is known).
C3_NoTrackPlacemarksStay ==
  /\ NoTrackButStored
  /\ Written =>
       \A i \in DOMAIN activities :
         (FewUsable(activities[i]) /\ (Flat \/ Known(activities[i].start_time))) =>
           IsSubseq(EndpointMarks(activities[i], TRUE),
                    MarksWhereBelongs(activities[i]))

\* a written document, tracks included, of an activity whose raw path has a
\* single usable point: no track, two placemarks
C3_Witness ==
  /\ Written /\ config.include_tracks
  /\ Len(activities) = 1
  /\ Winner(activities[1]) = "raw" /\ FewUsable(activities[1])
  /\ tracks = <<>> /\ WrittenTracks = <<>>
  /\ Len(WrittenActivityMarks) = 2

---------------------------------------------------------------------------
(* C7 *)

\* the day folders show the activities of their day, and nothing else does
DayFoldersShow(needTime) ==
  /\ \A i \in DOMAIN kml.folders :
       Marks(ChildrenOf(kml.folders[i].children, "activities_"))
         = ActivityMarks(OfDay(activities, kml.folders[i].id.text), needTime)
  /\ \A i, j \in DOMAIN kml.folders :
       i # j => kml.folders[i].id.text # kml.folders[j].id.text

\* C7 as stated: for every stored activity the document holds a start
\* placemark iff its start coordinate is present and an end placemark iff its
\* end coordinate is present, start before end, in flat and in grouped mode.
C7_Original ==
  Written =>
    /\ Len(WrittenActivityMarks) = Len(ActivityMarks(activities, FALSE))
    /\ IF Flat THEN WrittenActivityMarks = ActivityMarks(activities, FALSE)
       ELSE DayFoldersShow(FALSE)

\* C7 amended: in flat mode every stored activity, and in grouped mode every
\* stored activity whose start time is known (in the folder of its day; one
\* whose start time is unknown is in no folder), gets a start placemark iff
\* its start coordinate is present and its start time is known, and an end
\* placemark iff its end coordinate is present and its end time is known,
\* start before end, activities in stored order.
C7_PlacemarkPerKnownEndpoint ==
  Written =>
    IF Flat THEN WrittenActivityMarks = ActivityMarks(activities, TRUE)
    ELSE /\ DayFoldersShow(TRUE)
         /\ \A i \in DOMAIN activities :
              Known(activities[i].start_time) =>
                \E j \in DOMAIN kml.folders :
                  kml.folders[j].id.text = DayOf(activities[i])

\* a written flat document whose activities include one with only a start
\* coordinate (one placemark) and one with a coordinate whose time is unknown
C7_Witness ==
  /\ Written /\ Flat
  /\ \E i \in DOMAIN activities :
       /\ activities[i].end_coords = None
       /\ Known(activities[i].start_time)
       /\ Len(ActivityPoints(activities[i])) = 1
  /\ \E i \in DOMAIN activities :
       activities[i].start_coords # None /\ ~Known(activities[i].start_time)
  /\ Len(WrittenActivityMarks) > 0

---------------------------------------------------------------------------
(* C8 *)

\* the day keys of the three day indexes
IndexedDays ==
  DOMAIN activities_by_day \cup DOMAIN visits_by_day \cup DOMAIN tracks_by_day

\* key a sorts before key b: at the first place they differ a is smaller
KeyBefore(a, b) ==
  \E k \in DOMAIN a \cap DOMAIN b :
    /\ a[k] < b[k]
    /\ \A h \in 1..(k - 1) : a[h] = b[h]

\* the sub-folder ids a day is to have, in the fixed order
SubFoldersOf(date_key) ==
  (IF Get(activities_by_day, date_key, <<>>) # <<>> THEN <<"activities_">> ELSE <<>>)
  \o (IF Get(visits_by_day, date_key, <<>>) # <<>> THEN <<"visits_">> ELSE <<>>)
  \o (IF Get(tracks_by_day, date_key, <<>>) # <<>> THEN <<"tracks_">> ELSE <<>>)

\* C8: in grouped mode the written document has exactly one day folder for
\* each day key of the three day indexes, the day folders are in ascending
\* key order, and each holds the sub-folders of its non-empty categories in
\* the order activities, visits, tracks.
C8_DayFolders ==
  (Written /\ ~Flat) =>
    /\ {kml.folders[i].id.text : i \in DOMAIN kml.folders} = IndexedDays
    /\ Len(kml.folders) = Cardinality(IndexedDays)
    /\ \A i \in DOMAIN kml.folders : kml.folders[i].id.prefix = "day_"
    /\ \A i, j \in DOMAIN kml.folders :
         i < j => KeyBefore(kml.folders[i].id.text, kml.folders[j].id.text)
    /\ \A i \in DOMAIN kml.folders :
         LET sub == kml.folders[i].children
         IN [j \in DOMAIN sub |-> sub[j].id.prefix]
              = SubFoldersOf(kml.folders[i].id.text)

\* a written grouped document with two day folders, the first with an
\* activities, a visits and a tracks sub-folder, the second with visits only
C8_Witness ==
  /\ Written /\ ~Flat
  /\ Len(kml.folders) = 2
  /\ Len(kml.folders[1].children) = 3
  /\ Len(kml.folders[2].children) = 1
  /\ kml.folders[2].children[1].id.prefix = "visits_"

---------------------------------------------------------------------------
(* C9 *)

\* a day index holds, under each day, the items of its collection that start
\* on that day, in collection order, and has no other key
DayIndexOf(flat, by_day) ==
  /\ DOMAIN by_day = {DayOf(flat[i]) : i \in {h \in DOMAIN flat : Known(flat[h].start_time)}}
  /\ \A date_key \in DOMAIN by_day : by_day[date_key] = OfDay(flat, date_key)

\* C9: the flat collections hold the stored activities, visits and tracks in
\* input order; with group_by_day each day index holds exactly the items of
\* its collection whose start time is known, each once, under the day of its
\* start time and in input order (so an item of unknown start time is in the
\* flat collection and in no bucket); without group_by_day the three day
\* indexes are empty.
C9_FlatAndDayIndex ==
  /\ IsSubseq(activities, InputActivities)
  /\ IsSubseq(visits, InputVisits)
  /\ IsSubseq(tracks, ActivityTracks)
  /\ IF config.group_by_day
       THEN /\ DayIndexOf(activities, activities_by_day)
            /\ DayIndexOf(visits, visits_by_day)
            /\ DayIndexOf(tracks, tracks_by_day)
       ELSE IndexedDays = {}

\* grouped: two activities on one day, and an activity with its track stored
\* with an unknown start time, so in no bucket
C9_Witness ==
  /\ config.group_by_day
  /\ \E date_key \in DOMAIN activities_by_day :
       /\ Len(activities_by_day[date_key]) = 2
       /\ activities_by_day[date_key][1] # activities_by_day[date_key][2]
  /\ \E i \in DOMAIN activities : ~Known(activities[i].start_time)
  /\ \E i \in DOMAIN tracks : ~Known(tracks[i].start_time)

---------------------------------------------------------------------------
(* C10 *)

\* C10: with include_activities false no activity and no track is stored or
\* written; with include_tracks false no track is stored or written; with
\* include_visits false no visit is stored or written; every stored track is
\* the track of a stored activity, and tracks never outnumber activities.
C10_TogglesGate ==
  /\ ~config.include_activities =>
       /\ activities = <<>> /\ tracks = <<>>
       /\ DOMAIN activities_by_day = {} /\ DOMAIN tracks_by_day = {}
       /\ FolderPrefixes \cap {"activities", "activities_", "tracks", "tracks_"} = {}
  /\ ~config.include_tracks =>
       /\ tracks = <<>> /\ DOMAIN tracks_by_day = {}
       /\ FolderPrefixes \cap {"tracks", "tracks_"} = {}
  /\ ~config.include_visits =>
       /\ visits = <<>> /\ DOMAIN visits_by_day = {}
       /\ FolderPrefixes \cap {"visits", "visits_"} = {}
  /\ \A i \in DOMAIN tracks : \E j \in DOMAIN activities :
       create_track_from_activity(activities[j]) = Some(tracks[i])
  /\ Len(tracks) <= Len(activities)

\* a written run with tracks switched off that stored an activity which has
\* a track, and a visit
C10_Witness ==
  /\ Written
  /\ ~config.include_tracks /\ config.include_activities
  /\ \E i \in DOMAIN activities : create_track_from_activity(activities[i]) # None
  /\ visits # <<>>

---------------------------------------------------------------------------
(* C4, C5, C6: the date filter and the filtered_out counter *)

StartOf(e) == parse_timestamp(GetOpt(e, "startTime"))
EndOf(e) == parse_timestamp(GetOpt(e, "endTime"))

\* a record time and a bound are on one time basis: both naive, both aware,
\* or a UTC record time and a naive bound
SameBasis(t, bound) ==
  \/ t.aware = bound.aware
  \/ t.aware /\ t.off = 0 /\ ~bound.aware

\* the seconds from the bound to the record time
SecondsPast(t, bound) == (t.wall - t.off) - (bound.wall - bound.off)

\* a record time is in the configured range, bounds included
InRange(t) ==
  /\ config.start_date # None => SecondsPast(t, Val(config.start_date)) >= 0
  /\ config.end_date # None => SecondsPast(t, Val(config.end_date)) <= 0

Comparable(t) ==
  /\ config.start_date # None => SameBasis(t, Val(config.start_date))
  /\ config.end_date # None => SameBasis(t, Val(config.end_date))

\* the records of the input that the filter is to drop, judged by time(e),
\* and the stored visits that leaves
DroppedBy(time(_)) == {i \in DOMAIN data : ~InRange(Val(time(data[i])))}
KeptVisits(time(_)) ==
  LET sel == SelectSeq(data, LAMBDA e :
               /\ InRange(Val(time(e)))
               /\ "visit" \in DOMAIN e
               /\ process_visit(e) # None)
  IN [i \in DOMAIN sel |-> Val(process_visit(sel[i]))]

\* C5: the range is inclusive.  Over an input whose records all have a known
\* start time on the time basis of the bounds: a record is dropped and
\* counted in filtered_out iff its start time is before start_date or after
\* end_date (one equal to a bound is kept, one a second outside is dropped);
\* with no bound every record is kept.
C5_InclusiveBounds ==
  (\A i \in DOMAIN data : Known(StartOf(data[i])) /\ Comparable(Val(StartOf(data[i])))) =>
    /\ pc # "aborted"
    /\ stats.filtered_out = Cardinality(DroppedBy(StartOf))
    /\ visits = KeptVisits(StartOf)
    /\ (config.start_date = None /\ config.end_date = None) => visits = InputVisits

\* both bounds set; a record at start_date and one at end_date were kept
C5_WitnessKept ==
  /\ config.start_date # None /\ config.end_date # None
  /\ Len(data) = 2 /\ Len(visits) = 2
  /\ Known(StartOf(data[1])) /\ Comparable(Val(StartOf(data[1])))
  /\ Known(StartOf(data[2])) /\ Comparable(Val(StartOf(data[2])))
  /\ SecondsPast(Val(StartOf(data[1])), Val(config.start_date)) = 0
  /\ SecondsPast(Val(StartOf(data[2])), Val(config.end_date)) = 0
  /\ stats.filtered_out = 0

\* C4 as stated: the filter judges a record by its end time whenever its
\* start time is unknown (missing or unparsable): such a record with a known
\* end time outside the range is dropped and counted.
C4_FallbackWheneverUnknown ==
  (\A i \in DOMAIN data :
      /\ ~Known(StartOf(data[i]))
      /\ Known(EndOf(data[i])) /\ Comparable(Val(EndOf(data[i])))) =>
    /\ stats.filtered_out = Cardinality(DroppedBy(EndOf))
    /\ visits = KeptVisits(EndOf)

\* C6 as stated: every record is stored or counted in filtered_out: one that
\* passes the date filter and is not stored (no place location, no
\* coordinate, neither key) increments filtered_out.
C6_UnstoredCounted ==
  pc # "aborted" =>
    stats.filtered_out = stats.total_entries - (Len(activities) + Len(visits))

---------------------------------------------------------------------------
(* C1, C2: which path source a track is built from, and which points stay *)

\* the winning source when a waypoint path or a transit path counts as
\* present as soon as the path object is there
WinnerByObject(a) ==
  IF RawPairs(a) # <<>> THEN "raw"
  ELSE IF a.waypoint_path # None THEN "waypoint"
  ELSE IF a.transit_path # None THEN "transit"
  ELSE "fallback"

Decoded(pairs) == [i \in DOMAIN pairs |-> <<DecodeE7(pairs[i][1]), DecodeE7(pairs[i][2])>>]

\* the points of a list with no zero component
NoZero(pairs) == SelectSeq(pairs, LAMBDA p : p[1] # 0 /\ p[2] # 0)

\* the track of activity a comes from the given source only, in input order:
\* from the fallback, it is [start, end] when both are there and else there
\* is none; from a path, its coordinates are points of that path in input
\* order with every point without a zero component among them, and there is
\* a track when 2 such points or more are there
FromSource(a, source) ==
  IF source = "fallback"
    THEN IF a.start_coords # None /\ a.end_coords # None
           THEN /\ Len(tracks) = 1
                /\ tracks[1].coordinates = <<Val(a.start_coords), Val(a.end_coords)>>
           ELSE tracks = <<>>
    ELSE /\ Len(tracks) <= 1
         /\ Len(NoZero(PairsOf(a, source))) >= 2 => Len(tracks) = 1
         /\ Len(tracks) = 1 =>
              /\ IsSubseq(tracks[1].coordinates, Decoded(PairsOf(a, source)))
              /\ IsSubseq(Decoded(NoZero(PairsOf(a, source))), tracks[1].coordinates)

\* a raw path of 2 valid points or more and a waypoint path: a gps_track
RawBeatsWaypoints(a) ==
  (Len(NoZero(RawPairs(a))) >= 2 /\ a.waypoint_path # None) =>
    /\ Len(tracks) = 1
    /\ tracks[1].track_type = "gps_track"
    /\ IsSubseq(tracks[1].coordinates, Decoded(RawPairs(a)))

\* C1 as stated: the track of a stored activity comes only from the first
\* present source in the order raw path with a non-empty point list,
\* waypoint path, transit-stop path, [start, end] fallback.
C1_Original ==
  Len(activities) = 1 =>
    /\ FromSource(activities[1], WinnerByObject(activities[1]))
    /\ RawBeatsWaypoints(activities[1])

\* C1 amended: the track of a stored activity comes only from the first
\* source, in the order raw path, waypoint path, transit-stop path, whose
\* point list is non-empty, else from the [start, end] fallback, in input
\* order; a raw path of 2 valid points or more wins over a waypoint path and
\* the track is labelled gps_track.
C1_FirstNonEmptySourceWins ==
  Len(activities) = 1 =>
    /\ FromSource(activities[1], Winner(activities[1]))
    /\ RawBeatsWaypoints(activities[1])

\* a raw path of 2 valid points and a waypoint path with points gave a track
C1_Witness ==
  /\ Len(activities) = 1 /\ Len(tracks) = 1
  /\ Len(NoZero(RawPairs(activities[1]))) >= 2
  /\ WayPairs(activities[1]) # <<>>
  /\ tracks[1].track_type = "gps_track"
  /\ tracks[1].coordinates = Decoded(RawPairs(activities[1]))

\* C2 as stated: of the fixed-point points of the winning path exactly those
\* that decode to (0, 0) are skipped: every other point is kept, in input
\* order, and counts toward the 2-point minimum.
C2_SkipsExactlyBothZero ==
  (Len(activities) = 1 /\ Winner(activities[1]) # "fallback") =>
    LET pairs == PairsOf(activities[1], Winner(activities[1]))
        kept == Decoded(SelectSeq(pairs, LAMBDA p : ~BothZero(p)))
    IN IF Len(kept) >= 2
         THEN Len(tracks) = 1 /\ tracks[1].coordinates = kept
         ELSE tracks = <<>>

---------------------------------------------------------------------------
(* C11: two runs on the same records and configuration *)

SecondRunWritten ==
  pc = "written" /\ first # None /\ data = Val(first).data

\* C11 as stated: the second of two runs on identical records and
\* configuration writes the document the first run wrote, on a new
\* converter and on the converter of the first run alike.
C11_SameDocumentTwice ==
  SecondRunWritten => kml = Val(first).kml

\* the part on a newly created converter
NewConverterSameDocument ==
  (SecondRunWritten /\ Val(first).renewed) => kml = Val(first).kml

---------------------------------------------------------------------------
(* C12: malformed fields *)

\* C12 as stated: a malformed field (a bad or non-string geo value, a bad or
\* non-string timestamp, a non-numeric probability or distance) never aborts
\* the run: no record and no write ends it with an exception.
C12_NeverAborts == pc # "aborted"

---------------------------------------------------------------------------
(* C13: nothing is written before the input is loaded and iterated *)

\* C13: the output is opened only after the input was loaded as a list and
\* every record of it has been iterated; a run on an input that is missing,
\* not JSON or not a list fails with the output untouched.
C13_WriteAfterLoadAndLoop ==
  /\ kml.opened =>
       /\ Val(input).kind = "list"
       /\ data = Val(input).records
       /\ pc \in {"written", "aborted"}
  /\ (Val(input).kind # "list" /\ pc # "loading") =>
       /\ pc = "failed"
       /\ kml = [opened |-> FALSE, complete |-> FALSE, folders |-> <<>>]
       /\ data = <<>>

\* a list of 2 records or more was loaded, iterated and written
C13_Witness ==
  /\ pc = "written"
  /\ kml.opened
  /\ Len(Val(input).records) >= 2
  /\ data = Val(input).records

---------------------------------------------------------------------------
(* C14: the document of one plain activity *)

\* the document for an activity from start to end: an activities folder of
\* two placemarks, start then end, no visits folder, and a tracks folder of
\* one track over [start, end], coordinates rendered longitude first; the
\* stored track is labelled simple_track
SimpleDocument(start, end) ==
  /\ Len(kml.folders) = 2
  /\ kml.folders[1].id.prefix = "activities"
  /\ Marks(kml.folders[1].children) =
       <<<<"activity_start", <<LonLat(start)>>>>, <<"activity_end", <<LonLat(end)>>>>>>
  /\ kml.folders[2].id.prefix = "tracks"
  /\ Len(kml.folders[2].children) = 1
  /\ kml.folders[2].children[1].coordinates = <<LonLat(start), LonLat(end)>>
  /\ kml.folders[2].children[1].track_type = "Simple Track"
  /\ Len(tracks) = 1
  /\ tracks[1].coordinates = <<start, end>>
  /\ tracks[1].track_type = "simple_track"

RunOver == pc # "processing"

\* C14 as stated: the run on one activity record with both geo strings,
\* known start and end times and no path data writes, in the flat default
\* configuration, the document of two placemarks and one simple_track.
C14_SimpleActivityDocument ==
  (Len(data) = 1 /\ RunOver) =>
    /\ pc = "written"
    /\ SimpleDocument(Val(parse_geo_coordinate(Some(data[1].activity.start))),
                      Val(parse_geo_coordinate(Some(data[1].activity.end))))

\* the same when the two times are both zone-aware or both naive
SameZoneSimpleDocument ==
  (Len(data) = 1 /\ RunOver /\ data[1].startTime.zone = data[1].endTime.zone) =>
    /\ pc = "written"
    /\ SimpleDocument(Val(parse_geo_coordinate(Some(data[1].activity.start))),
                      Val(parse_geo_coordinate(Some(data[1].activity.end))))

---------------------------------------------------------------------------
(* C15: identifiers derived from day keys *)

NoHyphen(text) == \A k \in DOMAIN text : text[k] # Hyphen

\* the ids of the activities / visits / tracks sub-folders of the day folders
\* hold no hyphen
SubFolderIdsNoHyphen ==
  (Written /\ ~Flat) =>
    \A i \in DOMAIN kml.folders :
      \A j \in DOMAIN kml.folders[i].children :
        NoHyphen(kml.folders[i].children[j].id.text)

\* C15 as stated: in grouped mode no identifier derived from a day key holds
\* a hyphen, the id of the day folder and the ids of its sub-folders alike.
C15_NoHyphenInIds ==
  /\ SubFolderIdsNoHyphen
  /\ (Written /\ ~Flat) =>
       \A i \in DOMAIN kml.folders : NoHyphen(kml.folders[i].id.text)

---------------------------------------------------------------------------
(* C16: zone-aware and zone-naive times in the date filter *)

\* the seconds from the bound to the record time on a common basis: when
\* exactly one of the two carries zone information it is dropped from that
\* one and the wall-clock fields are compared
WallSecondsPast(t, bound) ==
  IF t.aware = bound.aware THEN SecondsPast(t, bound) ELSE t.wall - bound.wall

InRangeByWallClock(t) ==
  /\ config.start_date # None => WallSecondsPast(t, Val(config.start_date)) >= 0
  /\ config.end_date # None => WallSecondsPast(t, Val(config.end_date)) <= 0

\* the filter never raises
FilterNeverRaises == pc # "aborted"

\* records with a known start time are dropped exactly when their time is
\* out of range on the common basis
FilterByWallClock ==
  (\A i \in DOMAIN data : Known(StartOf(data[i]))) =>
    (pc # "aborted" =>
       stats.filtered_out =
         Cardinality({i \in DOMAIN data : ~InRangeByWallClock(Val(StartOf(data[i])))}))

\* C16 as stated: for every combination of zone-aware and zone-naive record
\* time and bounds the filter returns a boolean and does not raise, and with
\* zone information on one side only it compares the wall-clock fields.
C16_MixedZonesCompared == FilterNeverRaises /\ FilterByWallClock

---------------------------------------------------------------------------
(* C17: the category toggles *)

\* the stored activities do not depend on include_visits: they are the
\* activities of all records with an 'activity' key
ActivitiesWhateverVisits ==
  activities = (IF config.include_activities THEN InputActivities ELSE <<>>)

\* C17 as stated: the stored visits are the same with include_activities
\* true as with it false, where they are the visits of all records with a
\* 'visit' key, and the stored activities are the same with include_visits
\* true as with it false; the written ones follow the stored ones.
C17_TogglesIndependent ==
  /\ ActivitiesWhateverVisits
  /\ visits = (IF config.include_visits THEN InputVisits ELSE <<>>)
  /\ (Written /\ Flat) => Len(WrittenVisits) = Len(visits)

---------------------------------------------------------------------------
(* C18: the label of a track *)

SourceLabel(source) ==
  CASE source = "raw" -> "gps_track"
    [] source = "waypoint" -> "waypoint_track"
    [] source = "transit" -> "transit_track"
    [] OTHER -> "simple_track"

\* C18 as stated: the track_type of a stored track names the source its
\* coordinates were taken from, simple_track for the [start, end] fallback
\* also when a path object with an empty point list is present.
C18_LabelNamesSource ==
  (Len(activities) = 1 /\ Len(tracks) = 1) =>
    tracks[1].track_type = SourceLabel(Winner(activities[1]))

====
